---- MODULE Spec2Model ----
(***************************************************************************)
(* Model of git-cliff-core/src/release.rs: the Release entity, its         *)
(* calculate_next_version operation and the Releases::as_json serializer.  *)
(*                                                                         *)
(* Strings are sequences of one-character strings, so that trimming,       *)
(* parsing and formatting are computed character by character.  Commit     *)
(* messages are sequences of lexical tokens (a word, a blank, a newline,   *)
(* a punctuation mark).  An Option is a sequence of length 0 (None) or     *)
(* 1 (Some).                                                               *)
(*                                                                         *)
(* The calls release.rs makes into its dependencies are modelled by what   *)
(* the called functions do: str::trim_start_matches and str::trim_end,     *)
(* semver's Version::parse and to_string, next_version's next (an empty    *)
(* list leaves the version as it is; a version with a pre-release has its  *)
(* pre-release incremented; otherwise breaking changes and features bump   *)
(* major and minor only from 1.0.0 on, a breaking change bumps the minor   *)
(* of a 0.x version with x >= 1, and everything else bumps the patch), and *)
(* serde_json::to_string.  The bump_version test of release.rs holds of    *)
(* the model (bump_version below).                                         *)
(***************************************************************************)
EXTENDS Integers, Sequences, FiniteSets, TLC

VARIABLES release, releases, result, json, pc

vars == <<release, releases, result, json, pc>>

\* Bounds of the model.
MaxNum == 9
MaxV == 2
MaxCommits == 2
MaxReleases == 2
MaxPad == 2

None == <<>>
Some(x) == <<x>>
IsSome(o) == Len(o) = 1
Unwrap(o) == o[1]

----------------------------------------------------------------------------
\* Characters and decimal numbers.

Digits == <<"0", "1", "2", "3", "4", "5", "6", "7", "8", "9">>

IsDigit(c) == \E i \in 1..10 : Digits[i] = c

DigitVal(c) == (CHOOSE i \in 1..10 : Digits[i] = c) - 1

IsLetter(c) == c \in {"a", "b", "v"}

\* The characters a pre-release or build identifier may hold.
IsIdentChar(c) == IsDigit(c) \/ IsLetter(c) \/ c = "-"

AllDigits(s) == Len(s) > 0 /\ \A i \in 1..Len(s) : IsDigit(s[i])

RECURSIVE ParseNat(_)
ParseNat(s) ==
  IF Len(s) = 0 THEN 0
  ELSE 10 * ParseNat(SubSeq(s, 1, Len(s) - 1)) + DigitVal(s[Len(s)])

RECURSIVE NatToString(_)
NatToString(n) ==
  IF n < 10 THEN <<Digits[n + 1]>>
  ELSE NatToString(n \div 10) \o <<Digits[(n % 10) + 1]>>

\* Position of the first (last) occurrence of c in s, 0 when there is none.
IndexOf(s, c) ==
  IF \E i \in 1..Len(s) : s[i] = c
  THEN CHOOSE i \in 1..Len(s) : s[i] = c /\ \A j \in 1..(i - 1) : s[j] # c
  ELSE 0

LastIndexOf(s, c) ==
  IF \E i \in 1..Len(s) : s[i] = c
  THEN CHOOSE i \in 1..Len(s) : s[i] = c /\ \A j \in (i + 1)..Len(s) : s[j] # c
  ELSE 0

RECURSIVE Split(_, _)
Split(s, sep) ==
  LET i == IndexOf(s, sep)
  IN  IF i = 0 THEN <<s>>
      ELSE <<SubSeq(s, 1, i - 1)>> \o Split(SubSeq(s, i + 1, Len(s)), sep)

----------------------------------------------------------------------------
\* str::trim_start_matches('v'): every leading 'v' is removed.
RECURSIVE TrimStartMatchesV(_)
TrimStartMatchesV(s) ==
  IF Len(s) > 0 /\ s[1] = "v" THEN TrimStartMatchesV(Tail(s)) ELSE s

----------------------------------------------------------------------------
\* semver::Version::parse.

\* A numeric identifier: digits without a leading zero.
IsNumericIdent(s) == AllDigits(s) /\ (Len(s) > 1 => s[1] # "0")

\* A pre-release identifier: non-empty, identifier characters, and when it
\* is all digits it has no leading zero.
IsPreIdent(s) ==
  /\ Len(s) > 0
  /\ \A i \in 1..Len(s) : IsIdentChar(s[i])
  /\ (AllDigits(s) => IsNumericIdent(s))

IsBuildIdent(s) == Len(s) > 0 /\ \A i \in 1..Len(s) : IsIdentChar(s[i])

ParseError == [ok |-> FALSE]

ParseOk(v) == [ok |-> TRUE, version |-> v]

VersionParse(s) ==
  LET plus    == IndexOf(s, "+")
      hasB    == plus > 0
      noBuild == IF hasB THEN SubSeq(s, 1, plus - 1) ELSE s
      build   == IF hasB THEN SubSeq(s, plus + 1, Len(s)) ELSE <<>>
      dash    == IndexOf(noBuild, "-")
      hasP    == dash > 0
      core    == IF hasP THEN SubSeq(noBuild, 1, dash - 1) ELSE noBuild
      pre     == IF hasP THEN SubSeq(noBuild, dash + 1, Len(noBuild)) ELSE <<>>
      nums    == Split(core, ".")
      pres    == Split(pre, ".")
      builds  == Split(build, ".")
  IN  IF /\ Len(nums) = 3
         /\ \A i \in 1..3 : IsNumericIdent(nums[i])
         /\ (hasP => \A i \in 1..Len(pres) : IsPreIdent(pres[i]))
         /\ (hasB => \A i \in 1..Len(builds) : IsBuildIdent(builds[i]))
      THEN ParseOk([major |-> ParseNat(nums[1]),
                    minor |-> ParseNat(nums[2]),
                    patch |-> ParseNat(nums[3]),
                    pre   |-> pre,
                    build |-> build])
      ELSE ParseError

\* <semver::Version as Display>::to_string.
VersionToString(v) ==
  NatToString(v.major) \o <<".">> \o NatToString(v.minor) \o <<".">>
    \o NatToString(v.patch)
    \o (IF Len(v.pre) > 0 THEN <<"-">> \o v.pre ELSE <<>>)
    \o (IF Len(v.build) > 0 THEN <<"+">> \o v.build ELSE <<>>)

----------------------------------------------------------------------------
\* Commit messages.  A message is a sequence of tokens: a word ("feat",
\* "fix", "docs", "xyz"), a scope "(scope)", "!", ":", a blank " ", a
\* newline "\n", or the footer token "BREAKING CHANGE".

IsWhitespace(t) == t \in {" ", "\n", "\t"}

IsWord(t) == t \in {"feat", "fix", "docs", "xyz"}

\* Variant: the message is left untrimmed.
trim_none(m) == m

\* str::trim_end: every trailing whitespace character is removed.
RECURSIVE trim_end(_)
trim_end(m) ==
  IF Len(m) > 0 /\ IsWhitespace(m[Len(m)])
  THEN trim_end(SubSeq(m, 1, Len(m) - 1))
  ELSE m

\* The conventional-commit grammar the next() call parses each message
\* with: type, optional scope, optional "!", ": ", a one-line
\* description, and optionally a blank line followed by a body or footers.
\* A message that does not match is not a conventional commit.
NotConventional == [ok |-> FALSE]

ParseCommit(m) ==
  LET colon   == IndexOf(m, ":")
      head    == SubSeq(m, 1, colon - 1)
      marks   == SubSeq(head, 2, Len(head))
      rest    == SubSeq(m, colon + 2, Len(m))
      nl      == IndexOf(rest, "\n")
      summary == IF nl = 0 THEN rest ELSE SubSeq(rest, 1, nl - 1)
      body    == IF nl = 0 THEN <<>> ELSE SubSeq(rest, nl + 2, Len(rest))
      footerBreaking ==
        /\ Len(body) >= 4
        /\ SubSeq(body, 1, 3) = <<"BREAKING CHANGE", ":", " ">>
  IN  IF /\ colon >= 2
         /\ IsWord(head[1])
         /\ marks \in {<<>>, <<"(scope)">>, <<"!">>, <<"(scope)", "!">>}
         /\ Len(m) > colon
         /\ m[colon + 1] = " "
         /\ Len(summary) > 0
         /\ (nl > 0 =>
               /\ Len(rest) > nl + 1
               /\ rest[nl + 1] = "\n"
               /\ ~IsWhitespace(rest[Len(rest)]))
      THEN [ok       |-> TRUE,
            type     |-> head[1],
            breaking |-> ("!" \in {marks[i] : i \in 1..Len(marks)})
                           \/ footerBreaking]
      ELSE NotConventional

----------------------------------------------------------------------------
\* next_version: the increment next() derives from the messages, and its
\* application to the version.

\* The messages that parse as conventional commits, in order.
ConventionalCommits(msgs) ==
  SelectSeq([i \in 1..Len(msgs) |-> ParseCommit(msgs[i])], LAMBDA c : c.ok)

\* Variant: only the last commit decides whether there is a breaking change.
last_breaking(commits) == Len(commits) > 0 /\ commits[Len(commits)].breaking

\* Iterator::any over the parsed commits.
any_feature(commits) == \E i \in 1..Len(commits) : commits[i].type = "feat"

any_breaking(commits) == \E i \in 1..Len(commits) : commits[i].breaking

\* Variant: the precedence major > minor > patch with no rule for 0.x.
standard_precedence(current, commits) ==
  IF any_breaking(commits) THEN "Major"
  ELSE IF any_feature(commits) THEN "Minor"
  ELSE "Patch"

\* Variant: features are not looked at.
features_ignored(current, commits) ==
  IF current.major # 0 /\ any_breaking(commits) THEN "Major"
  ELSE IF current.major = 0 /\ current.minor # 0 /\ any_breaking(commits)
  THEN "Minor"
  ELSE "Patch"

from_conventional_commits(current, commits) ==
  LET is_there_a_feature         == any_feature(commits)
      is_there_a_breaking_change == any_breaking(commits)
      is_major_bump == current.major # 0 /\ is_there_a_breaking_change
      is_feat_bump  == current.major # 0 /\ is_there_a_feature
      is_breaking_bump ==
        current.major = 0 /\ current.minor # 0 /\ is_there_a_breaking_change
      is_minor_bump == is_feat_bump \/ is_breaking_bump
  IN  IF is_major_bump THEN "Major"
      ELSE IF is_minor_bump THEN "Minor"
      ELSE "Patch"

\* Variant: an empty list of messages is not told apart.
from_commits_unguarded(current, msgs) ==
  IF Len(current.pre) > 0 THEN Some("Prerelease")
  ELSE Some(from_conventional_commits(current, ConventionalCommits(msgs)))

\* None for an empty list of messages; Prerelease for a version that has a
\* pre-release; otherwise the increment of the conventional commits.
from_commits(current, msgs) ==
  IF Len(msgs) = 0 THEN None
  ELSE IF Len(current.pre) > 0 THEN Some("Prerelease")
  ELSE Some(from_conventional_commits(current, ConventionalCommits(msgs)))

\* The last dot-separated identifier incremented when it is a number,
\* ".1" appended otherwise.
increment_last_identifier(pre) ==
  LET dot   == LastIndexOf(pre, ".")
      left  == SubSeq(pre, 1, dot - 1)
      right == SubSeq(pre, dot + 1, Len(pre))
  IN  IF dot > 0 /\ AllDigits(right)
      THEN left \o <<".">> \o NatToString(ParseNat(right) + 1)
      ELSE pre \o <<".", "1">>

\* Variant: a patch increment leaves the version as it is.
bump_patch_kept(v, increment) ==
  CASE increment = "Major" ->
         [v EXCEPT !.major = v.major + 1, !.minor = 0, !.patch = 0, !.pre = <<>>]
    [] increment = "Minor" ->
         [v EXCEPT !.minor = v.minor + 1, !.patch = 0, !.pre = <<>>]
    [] increment = "Patch" -> v
    [] increment = "Prerelease" ->
         [v EXCEPT !.pre = increment_last_identifier(v.pre)]

bump(v, increment) ==
  CASE increment = "Major" ->
         [v EXCEPT !.major = v.major + 1, !.minor = 0, !.patch = 0, !.pre = <<>>]
    [] increment = "Minor" ->
         [v EXCEPT !.minor = v.minor + 1, !.patch = 0, !.pre = <<>>]
    [] increment = "Patch" ->
         [v EXCEPT !.patch = v.patch + 1, !.pre = <<>>]
    [] increment = "Prerelease" ->
         [v EXCEPT !.pre = increment_last_identifier(v.pre)]

next(v, msgs) ==
  LET increment == from_commits(v, msgs)
  IN  IF IsSome(increment) THEN bump(v, Unwrap(increment)) ELSE v

----------------------------------------------------------------------------
\* The Release entity.

Release(version, commits, commit_id, timestamp, previous) ==
  [version   |-> version,
   commits   |-> commits,
   commit_id |-> commit_id,
   timestamp |-> timestamp,
   previous  |-> previous]

\* Release::default().
DefaultRelease == Release(None, <<>>, None, 0, None)

Ok(s) == [ok |-> TRUE, value |-> s]

Err == [ok |-> FALSE, value |-> <<>>]

\* Variant: the chain is searched backwards for the nearest version.
RECURSIVE PreviousVersionDeep(_)
PreviousVersionDeep(r) ==
  IF ~IsSome(r.previous) THEN None
  ELSE IF IsSome(Unwrap(r.previous).version) THEN Unwrap(r.previous).version
  ELSE PreviousVersionDeep(Unwrap(r.previous))

\* self.previous.as_ref().and_then(|release| release.version.clone())
PreviousVersion(r) ==
  IF IsSome(r.previous) THEN Unwrap(r.previous).version ELSE None

\* self.commits.iter().map(|commit| commit.message.trim_end().to_string())
TrimmedMessages(r) == [i \in 1..Len(r.commits) |-> trim_end(r.commits[i])]

\* The string handed to Version::parse.
StripPrefix(version) == TrimStartMatchesV(version)

BootstrapVersion == <<"0", ".", "0", ".", "1">>

calculate_next_version(r) ==
  LET previous == PreviousVersion(r)
  IN  IF IsSome(previous)
      THEN LET parsed == VersionParse(StripPrefix(Unwrap(previous)))
           IN  IF parsed.ok
               THEN Ok(VersionToString(next(parsed.version, TrimmedMessages(r))))
               ELSE Err
      ELSE Ok(BootstrapVersion)

\* The cases of the bump_version test: the expected version of each commit
\* list on top of 1.0.0, and the release whose previous has no version.
bump_version ==
  LET previous == Some([DefaultRelease EXCEPT
                          !.version = Some(<<"1", ".", "0", ".", "0">>)])
      case(commits) ==
        calculate_next_version(Release(None, commits, None, 0, previous))
      empty_release ==
        [DefaultRelease EXCEPT !.previous = Some(DefaultRelease)]
  IN  /\ case(<< <<"feat", ":", " ", "add", " ", "xyz">>,
                 <<"fix", ":", " ", "fix", " ", "xyz">> >>)
           = Ok(<<"1", ".", "1", ".", "0">>)
      /\ case(<< <<"fix", ":", " ", "add", " ", "xyz">>,
                 <<"fix", ":", " ", "aaaaaa">> >>)
           = Ok(<<"1", ".", "0", ".", "1">>)
      /\ case(<< <<"feat", "!", ":", " ", "add", " ", "xyz">>,
                 <<"feat", ":", " ", "zzz">> >>)
           = Ok(<<"2", ".", "0", ".", "0">>)
      /\ case(<< <<"feat", "!", ":", " ", "add", " ", "xyz", "\n">>,
                 <<"feat", ":", " ", "zzz", "\n">> >>)
           = Ok(<<"2", ".", "0", ".", "0">>)
      /\ calculate_next_version(empty_release) = Ok(BootstrapVersion)

----------------------------------------------------------------------------
\* Releases::as_json.  A JSON document is a tree of values.

JNull == [kind |-> "null"]

JString(s) == [kind |-> "string", value |-> s]

JNumber(n) == [kind |-> "number", value |-> n]

JArray(items) == [kind |-> "array", items |-> items]

JObject(keys, values) == [kind |-> "object", keys |-> keys, values |-> values]

\* The serialization of a commit.
CommitJson(c) == JObject(<<"message">>, <<JString(c)>>)

OptionStringJson(o) == IF IsSome(o) THEN JString(Unwrap(o)) ELSE JNull

\* #[derive(Serialize)] of Release: the fields in declaration order,
\* commit_id under its explicit name, previous serialized recursively.
RECURSIVE ReleaseJson(_)
ReleaseJson(r) ==
  JObject(<<"version", "commits", "commit_id", "timestamp", "previous">>,
          <<OptionStringJson(r.version),
            JArray([i \in 1..Len(r.commits) |-> CommitJson(r.commits[i])]),
            OptionStringJson(r.commit_id),
            JNumber(r.timestamp),
            IF IsSome(r.previous) THEN ReleaseJson(Unwrap(r.previous)) ELSE JNull>>)

\* Variant: the Releases struct is serialized, not the vector it holds.
as_json_struct(rs) ==
  Ok(JObject(<<"releases">>,
             <<JArray([i \in 1..Len(rs) |-> ReleaseJson(rs[i])])>>))

\* serde_json::to_string(self.releases): the vector itself is serialized.
as_json(rs) == Ok(JArray([i \in 1..Len(rs) |-> ReleaseJson(rs[i])]))

----------------------------------------------------------------------------
\* The inputs: the releases the upstream collaborator hands over.

\* k leading 'v' characters.
RECURSIVE VPrefix(_)
VPrefix(k) == IF k = 0 THEN <<>> ELSE <<"v">> \o VPrefix(k - 1)

Core(major, minor, patch) ==
  NatToString(major) \o <<".">> \o NatToString(minor) \o <<".">>
    \o NatToString(patch)

\* The (major, minor, patch) triples of the versions handed over.
CoreNumbers == {0, 1, MaxNum} \X {0, 1} \X {0, MaxNum}

Cores == {Core(t[1], t[2], t[3]) : t \in CoreNumbers}

\* Pre-release and build suffixes, the last two malformed.
Suffixes ==
  {<<"-", "a">>, <<"-", "a", ".", "1">>, <<"+", "b">>,
   <<"-", "a", "+", "b">>, <<"-">>, <<".", "1">>}

Malformed ==
  {<<>>, <<"v">>, <<"1", ".", "0">>, <<"0", "1", ".", "0", ".", "0">>,
   <<"1", ".", "0", ".", "0", "v">>, <<"1", ".", ".", "0">>,
   <<"a", "1", ".", "0", ".", "0">>}

VersionStrings ==
  {VPrefix(k) \o c : k \in 0..MaxV, c \in Cores}
    \cup {VPrefix(k) \o Core(1, 0, MaxNum) \o x : k \in 0..1, x \in Suffixes}
    \cup Malformed

Messages ==
  {<<"feat", ":", " ", "xyz">>,
   <<"fix", ":", " ", "xyz">>,
   <<"feat", "(scope)", "!", ":", " ", "xyz">>,
   <<"docs", ":", " ", "xyz">>,
   <<"xyz">>,
   <<"fix", ":", " ", "xyz", "\n", "\n", "BREAKING CHANGE", ":", " ", "xyz">>,
   <<"feat", "!", ":", " ", "xyz", "\n">>,
   <<"fix", ":", " ", "xyz", " ", "\n">>}

SeqsUpTo(S, n) == UNION {[1..k -> S] : k \in 0..n}

CommitLists == SeqsUpTo(Messages, MaxCommits)

Tagged(version) == Release(Some(version), <<>>, Some(<<"a", "b">>), 1, None)

\* What lies behind a previous release that has no version.
Behind ==
  {None, Some(Tagged(Core(1, 0, 0))), Some(DefaultRelease)}

PreviousInputs ==
  {None}
    \cup {Some([Tagged(v) EXCEPT !.version = None, !.previous = b]) :
            v \in {Core(1, 0, 0)}, b \in Behind}
    \cup {Some(Tagged(v)) : v \in VersionStrings}

ReleaseInputs ==
  {Release(None, c, None, 0, p) : c \in CommitLists, p \in PreviousInputs}

\* The releases a collection is made of.
CollectionReleases ==
  {Release(v, c, id, t, p) :
     v \in {None, Some(Core(1, 0, 0))},
     c \in {<<>>, << <<"fix", ":", " ", "xyz">> >>},
     id \in {None, Some(<<"a", "b">>)},
     t \in {0, 1},
     p \in {None, Some(Tagged(Core(0, 1, 0)))}}

----------------------------------------------------------------------------
\* The state machine: a release is handed over and its next version is
\* calculated; a collection is handed over and serialized.

Init ==
  /\ release \in ReleaseInputs
  /\ releases = <<>>
  /\ result = None
  /\ json = None
  /\ pc = "ready"

CalculateNextVersion ==
  /\ pc = "ready"
  /\ result' = Some(calculate_next_version(release))
  /\ pc' = "done"
  /\ UNCHANGED <<release, releases, json>>

Next == CalculateNextVersion

Spec == Init /\ [][Next]_vars

InitJson ==
  /\ release = DefaultRelease
  /\ releases \in SeqsUpTo(CollectionReleases, MaxReleases)
  /\ result = None
  /\ json = None
  /\ pc = "ready"

AsJson ==
  /\ pc = "ready"
  /\ json' = Some(as_json(releases))
  /\ pc' = "done"
  /\ UNCHANGED <<release, releases, result>>

NextJson == AsJson

SpecJson == InitJson /\ [][NextJson]_vars

----------------------------------------------------------------------------
\* Properties.

Done == pc = "done" /\ IsSome(result)

Res == Unwrap(result)

HasPreviousVersion == IsSome(release.previous) /\ IsSome(Unwrap(release.previous).version)

PrevString == Unwrap(Unwrap(release.previous).version)

\* A string with one leading 'v' removed, if it has one.
StripOneV(s) == IF Len(s) > 0 /\ s[1] = "v" THEN Tail(s) ELSE s

\* The previous version is major.minor.patch, bare or behind one 'v'.
PrevIs(t) ==
  /\ HasPreviousVersion
  /\ \E k \in 0..1 : PrevString = VPrefix(k) \o Core(t[1], t[2], t[3])

\* The bump level of one message: the classification of its trimmed text.
Level(m) ==
  LET c == ParseCommit(trim_end(m))
  IN  IF ~c.ok THEN "none"
      ELSE IF c.breaking THEN "major"
      ELSE IF c.type = "feat" THEN "minor"
      ELSE IF c.type = "fix" THEN "patch"
      ELSE "none"

Levels(commits) == {Level(commits[i]) : i \in 1..Len(commits)}

\* C1: when previous is absent, or previous.version is absent, the result is
\* the success value "0.0.1", whatever the commits and whatever lies behind
\* previous.
C1_Bootstrap ==
  (Done /\ (release.previous = None \/ Unwrap(release.previous).version = None))
    => Res = Ok(<<"0", ".", "0", ".", "1">>)

C1_Witness ==
  /\ Done
  /\ IsSome(release.previous)
  /\ Unwrap(release.previous).version = None
  /\ IsSome(Unwrap(release.previous).previous)
  /\ IsSome(Unwrap(Unwrap(release.previous).previous).version)
  /\ "major" \in Levels(release.commits)
  /\ Res = Ok(<<"0", ".", "0", ".", "1">>)

\* C2 as stated: for every previous version major.minor.patch, major 0
\* included, a list holding a breaking-change commit gives (major+1).0.0.
C2_Original ==
  \A t \in CoreNumbers :
    (Done /\ PrevIs(t) /\ "major" \in Levels(release.commits))
      => Res = Ok(Core(t[1] + 1, 0, 0))

\* C2 amended: a list holding a breaking-change commit gives (major+1).0.0
\* when major >= 1; when major = 0 it gives 0.(minor+1).0 if minor >= 1
\* and 0.0.(patch+1) if minor = 0.
C2_Breaking ==
  \A t \in CoreNumbers :
    (Done /\ PrevIs(t) /\ "major" \in Levels(release.commits))
      => Res = Ok(IF t[1] >= 1 THEN Core(t[1] + 1, 0, 0)
                  ELSE IF t[2] >= 1 THEN Core(0, t[2] + 1, 0)
                  ELSE Core(0, 0, t[3] + 1))

C2_Witness ==
  /\ Done
  /\ PrevIs(<<0, 1, MaxNum>>)
  /\ Levels(release.commits) = {"major", "minor"}
  /\ Res = Ok(Core(0, 2, 0))

\* C3 as stated: for every previous version major.minor.patch, a list with
\* a feat commit and no breaking change gives major.(minor+1).0.
C3_Original ==
  \A t \in CoreNumbers :
    (Done /\ PrevIs(t) /\ "minor" \in Levels(release.commits)
          /\ "major" \notin Levels(release.commits))
      => Res = Ok(Core(t[1], t[2] + 1, 0))

\* C3 amended: a list with a feat commit and no breaking change gives
\* major.(minor+1).0 when major >= 1, and 0.minor.(patch+1) when major = 0.
C3_Feature ==
  \A t \in CoreNumbers :
    (Done /\ PrevIs(t) /\ "minor" \in Levels(release.commits)
          /\ "major" \notin Levels(release.commits))
      => Res = Ok(IF t[1] >= 1 THEN Core(t[1], t[2] + 1, 0)
                  ELSE Core(0, t[2], t[3] + 1))

C3_Witness ==
  /\ Done
  /\ PrevIs(<<1, 1, MaxNum>>)
  /\ Levels(release.commits) = {"minor", "patch"}
  /\ Res = Ok(Core(1, 2, 0))

\* C4: for every previous version major.minor.patch, a non-empty list of
\* fix commits only gives major.minor.(patch+1).
C4_Fix ==
  \A t \in CoreNumbers :
    (Done /\ PrevIs(t) /\ Levels(release.commits) = {"patch"})
      => Res = Ok(Core(t[1], t[2], t[3] + 1))

C4_Witness ==
  /\ Done
  /\ PrevIs(<<0, 1, MaxNum>>)
  /\ Len(release.commits) = MaxCommits
  /\ Levels(release.commits) = {"patch"}
  /\ Res = Ok(Core(0, 1, MaxNum + 1))

\* C5 as stated: for every previous version major.minor.patch, a list in
\* which no commit is a fix, a feature or breaking gives the version
\* unchanged.
C5_Original ==
  \A t \in CoreNumbers :
    (Done /\ PrevIs(t) /\ Levels(release.commits) \subseteq {"none"})
      => Res = Ok(Core(t[1], t[2], t[3]))

\* C5 amended: the empty list gives the version unchanged; a non-empty list
\* in which no commit is a fix, a feature or breaking gives
\* major.minor.(patch+1).
C5_NoRelevantCommit ==
  \A t \in CoreNumbers :
    (Done /\ PrevIs(t) /\ Levels(release.commits) \subseteq {"none"})
      => Res = Ok(IF release.commits = <<>> THEN Core(t[1], t[2], t[3])
                  ELSE Core(t[1], t[2], t[3] + 1))

C5_Witness ==
  /\ Done
  /\ PrevIs(<<1, 0, 0>>)
  /\ Len(release.commits) = MaxCommits
  /\ Levels(release.commits) = {"none"}
  /\ Res = Ok(Core(1, 0, 1))

\* C6 as stated: a present previous version is accepted only if it is a
\* valid semantic version as written or after removing a single leading
\* 'v', and the returned string never begins with 'v'.
C6_Original ==
  (Done /\ HasPreviousVersion /\ Res.ok)
    => /\ VersionParse(PrevString).ok \/ VersionParse(StripOneV(PrevString)).ok
       /\ Res.value[1] # "v"

\* C7 as stated: a present previous version that is not a valid semantic
\* version string (a single leading 'v' aside) gives an error result.
C7_Original ==
  (Done /\ HasPreviousVersion /\ ~VersionParse(StripOneV(PrevString)).ok)
    => ~Res.ok

JsonDone == pc = "done" /\ IsSome(json)

Doc == Unwrap(json).value

\* The value an object holds under a key.
Field(obj, key) ==
  obj.values[CHOOSE i \in 1..Len(obj.keys) : obj.keys[i] = key]

\* C8 as stated: the document is an object with the single key "releases"
\* whose value is the array of the releases, one element per release.
C8_Original ==
  JsonDone
    => /\ Unwrap(json).ok
       /\ Doc.kind = "object"
       /\ Doc.keys = <<"releases">>
       /\ Doc.values[1].kind = "array"
       /\ Len(Doc.values[1].items) = Len(releases)

\* C8 amended: the document is, at its top level, the array of the
\* releases in the order given, one element per release.
C8_TopLevelArray ==
  JsonDone
    => /\ Unwrap(json).ok
       /\ Doc.kind = "array"
       /\ Len(Doc.items) = Len(releases)
       /\ \A i \in 1..Len(releases) :
            /\ Doc.items[i].kind = "object"
            /\ Field(Doc.items[i], "version")
                 = OptionStringJson(releases[i].version)
            /\ Field(Doc.items[i], "commit_id")
                 = OptionStringJson(releases[i].commit_id)
            /\ Field(Doc.items[i], "timestamp").value = releases[i].timestamp
            /\ Len(Field(Doc.items[i], "commits").items)
                 = Len(releases[i].commits)
            /\ (Field(Doc.items[i], "previous").kind = "object")
                 = IsSome(releases[i].previous)

C8_Witness ==
  /\ JsonDone
  /\ Len(releases) = MaxReleases
  /\ releases[1].version # releases[MaxReleases].version
  /\ releases[1].timestamp # releases[MaxReleases].timestamp
  /\ IsSome(releases[1].previous)
  /\ Len(Doc.items) = MaxReleases

\* Runs of blanks and newlines.
WhitespaceRuns == UNION {[1..k -> {" ", "\n"}] : k \in 1..MaxPad}

\* C9: appending any run of trailing whitespace or newlines to any commit
\* message leaves the result unchanged, and the result is that of the
\* messages without their trailing whitespace.
C9_TrailingWhitespace ==
  Done
    => /\ \A i \in 1..Len(release.commits) : \A w \in WhitespaceRuns :
            calculate_next_version(
              [release EXCEPT !.commits[i] = release.commits[i] \o w]) = Res
       /\ calculate_next_version(
            [release EXCEPT !.commits = TrimmedMessages(release)]) = Res

C9_Witness ==
  /\ Done
  /\ PrevIs(<<1, 0, 0>>)
  /\ release.commits = << <<"feat", "!", ":", " ", "xyz", "\n">> >>
  /\ Res = Ok(Core(2, 0, 0))

\* One message of each bump level.
Representative(level) ==
  CASE level = "major" -> <<"feat", "!", ":", " ", "xyz">>
    [] level = "minor" -> <<"feat", ":", " ", "xyz">>
    [] level = "patch" -> <<"fix", ":", " ", "xyz">>
    [] level = "none"  -> <<"docs", ":", " ", "xyz">>

\* The levels of a set as a list, one representative each, in a fixed order.
Representatives(levels) ==
  SelectSeq(<<"none", "patch", "minor", "major">>, LAMBDA l : l \in levels)

RepresentativeList(levels) ==
  [i \in 1..Len(Representatives(levels)) |->
     Representative(Representatives(levels)[i])]

Permuted(commits, f) == [i \in 1..Len(commits) |-> commits[f[i]]]

\* C10: the result is the same for every permutation of the commits, and
\* depends only on which bump levels occur among them.
C10_OrderIndependent ==
  Done
    => /\ \A f \in Permutations(1..Len(release.commits)) :
            calculate_next_version(
              [release EXCEPT !.commits = Permuted(release.commits, f)]) = Res
       /\ calculate_next_version(
            [release EXCEPT
               !.commits = RepresentativeList(Levels(release.commits))]) = Res

C10_Witness ==
  /\ Done
  /\ PrevIs(<<1, 0, 0>>)
  /\ Len(release.commits) = MaxCommits
  /\ Level(release.commits[1]) = "patch"
  /\ Level(release.commits[MaxCommits]) = "major"
  /\ Res = Ok(Core(2, 0, 0))

====
